---- MODULE Spec2Model ----
(***************************************************************************)
(* Scroll-driven 3D model viewer (Omicli).                                 *)
(*                                                                         *)
(* Two entry points are modelled: src/main.js (main page only) and         *)
(* src/unnamed/part_000 (main page or solutions page, selected by          *)
(* isSolutionsPage).  The state is the module-level state of the script    *)
(* (currentModel, models, the visible flag of every loaded model, the      *)
(* directional light's target, the progress container), the loads in       *)
(* flight in the GLTFLoader, and the page environment the scroll handler   *)
(* reads (sections, window.innerHeight, window.scrollY).                   *)
(*                                                                         *)
(* A model object is identified by the key its load was started for.       *)
(* Scroll comparisons are done on doubled values so that                   *)
(* window.innerHeight / 2 stays exact for odd heights.                     *)
(***************************************************************************)
EXTENDS Integers, Sequences, FiniteSets, TLC

VARIABLES
    script,           \* "main.js" or "part_000": which entry point runs
    isSolutionsPage,  \* part_000 line 6; FALSE in main.js
    sections,         \* the page's section elements, in document order
    innerHeight,      \* window.innerHeight
    scrollY,          \* window.scrollY
    files,            \* path -> the scene the file at that path holds
    loadsStarted,     \* key -> number of loader.load calls made for it
    inFlight,         \* key -> number of loads not yet resolved
    loadResult,       \* key -> outcome the loader delivered ("none" so far)
    models,           \* keys of the `models` object
    visible,          \* key -> visible flag of that model object
    currentModel,     \* key of currentModel, or NULL
    lightTarget,      \* directionalLight.target
    prototypeVisible, \* Object.prototype.visible is true
    progressDisplay,  \* progress-container style.display
    progressText,     \* progress-container textContent
    consoleErrors,    \* keys whose load error was logged
    threw,            \* the last handler ended in a TypeError
    switchCalls,      \* arguments of the switchModel calls of the last scroll
    activeSections,   \* indices of the sections the last scroll found in range
    prepareCall,      \* arguments of the last prepareModel call: the scene and isCar
    prepared,         \* the scene that call returned
    lastOp            \* the handler that ran last

vars == <<script, isSolutionsPage, sections, innerHeight, scrollY, files,
          loadsStarted, inFlight, loadResult, models, visible, currentModel,
          lightTarget, prototypeVisible, progressDisplay, progressText,
          consoleErrors, threw,
          switchCalls, activeSections, prepareCall, prepared, lastOp>>

----------------------------------------------------------------------------
(* Bounds of the page environment *)

MaxTop == 3
MaxScroll == 4
MaxPosition == 1
MaxExtent == 2

----------------------------------------------------------------------------
(* Keys and values *)

NULL == "null"
NoAttr == "noattr"
DefaultTarget == "defaultTarget"

(* `models` is an object literal: besides the keys assigned to it, a lookup *)
(* models[name] finds the properties it inherits from Object.prototype.    *)
(* These are the names whose inherited value is truthy when the script     *)
(* starts.                                                                 *)
InheritedKeys ==
    {"constructor", "toString", "toLocaleString", "valueOf", "hasOwnProperty",
     "isPrototypeOf", "propertyIsEnumerable", "__proto__", "__defineGetter__",
     "__defineSetter__", "__lookupGetter__", "__lookupSetter__"}

(* The value such a lookup yields: a function, or Object.prototype itself  *)
(* for __proto__; not a model                                              *)
Inherited(name) == "Object.prototype." \o name

ObjectPrototype == Inherited("__proto__")

(* The boolean true, the value of Object.prototype.visible once set *)
True == "true"

PrimaryKey == "car"

modelPaths == <<"livingroom", "bedroom", "kitchen">>

SecondaryKeys == {modelPaths[i] : i \in 1..Len(modelPaths)}

LoadKeys == {PrimaryKey} \cup SecondaryKeys

----------------------------------------------------------------------------
(* The page: section elements in document order (querySelectorAll), each   *)
(* with offsetTop, offsetHeight and its data-model attribute.  The first   *)
(* section starts at the top of the page or below a header, later sections *)
(* start further down, and all sections share one height.  Ranges of       *)
(* consecutive sections may touch, leave a gap, or overlap.                *)

DataModels ==
    { <<"car", "livingroom", "bedroom">>,
      <<NoAttr, "nonexistent", "livingroom">> }

InnerHeights == {1, 2}

SectionHeights == {1, 2}

Section(top, height, attr) ==
    [offsetTop |-> top, offsetHeight |-> height, dataModel |-> attr]

Layouts ==
    { <<Section(q[1], q[4], q[5][1]), Section(q[2], q[4], q[5][2]),
        Section(q[3], q[4], q[5][3])>> :
        q \in { r \in (0..MaxTop) \X (0..MaxTop) \X (0..MaxTop) \X SectionHeights
                      \X DataModels :
                    r[1] < r[2] /\ r[2] < r[3] } }

(* A page whose sections name properties of Object.prototype *)
PrototypePage ==
    <<Section(1, 2, "constructor"), Section(2, 2, "__proto__"), Section(3, 2, "visible")>>

Pages == Layouts \cup {PrototypePage}

----------------------------------------------------------------------------
(* GLTFLoader: loader.load(path, onLoad, onProgress, onError) *)

Loader == [loadsStarted |-> loadsStarted, inFlight |-> inFlight]

load(ld, key) ==
    [ld EXCEPT !.loadsStarted[key] = @ + 1, !.inFlight[key] = @ + 1]

RECURSIVE loadEach(_, _, _)
loadEach(ld, keys, i) ==
    IF i > Len(keys) THEN ld ELSE loadEach(load(ld, keys[i]), keys, i + 1)

(* loadOtherModels that leaves out the last entry of modelPaths *)
loadOtherModels_SkipLast(ld) == loadEach(ld, SubSeq(modelPaths, 1, Len(modelPaths) - 1), 1)

(* loadOtherModels: one loader.load per entry of modelPaths, unconditionally *)
loadOtherModels(ld) == loadEach(ld, modelPaths, 1)

(* loadCarModel: one loader.load for the car, unconditionally *)
loadCarModel(ld) == load(ld, PrimaryKey)

NoLoads ==
    [loadsStarted |-> [k \in LoadKeys |-> 0], inFlight |-> [k \in LoadKeys |-> 0]]

(* Top-level statements of the script *)
StartLoading(sc, sol) ==
    IF sc = "part_000" /\ sol THEN loadOtherModels(NoLoads) ELSE loadCarModel(NoLoads)

----------------------------------------------------------------------------
(* Registration that replaces the registry by the new entry *)
register_Replace(ms, key) == {key}

(* models[key] = model *)
register(ms, key) == ms \cup {key}

(* Scene state touched by the scroll handler *)

Scene ==
    [currentModel |-> currentModel, visible |-> visible,
     lightTarget |-> lightTarget, prototypeVisible |-> prototypeVisible,
     threw |-> FALSE, switchCalls |-> <<>>, activeSections |-> {}]

(* models[key]: the registered model, an inherited property, or nothing.  *)
(* pv: Object.prototype.visible is true                                    *)
lookup(ms, key, pv) ==
    IF key \in ms THEN key
    ELSE IF key \in InheritedKeys THEN Inherited(key)
    ELSE IF key = "visible" /\ pv THEN True
    ELSE NULL

(* modelKey && models[modelKey] *)
Registered(key, ms, pv) == key # NoAttr /\ lookup(ms, key, pv) # NULL

(* currentModel.visible = ... in a module (strict mode) throws when        *)
(* currentModel is a primitive                                             *)
Primitive(value) == value = True

(* currentModel.visible = false: a flag of a model, a property of          *)
(* Object.prototype, or a stray property of an inherited function          *)
hide(st) ==
    IF st.currentModel \in LoadKeys
    THEN [st EXCEPT !.visible[st.currentModel] = FALSE]
    ELSE IF st.currentModel = ObjectPrototype
    THEN [st EXCEPT !.prototypeVisible = FALSE]
    ELSE IF Primitive(st.currentModel)
    THEN [st EXCEPT !.threw = TRUE]
    ELSE st

(* Lines 182-185 for target = models[modelKey]: visible cannot be set on a *)
(* primitive, and updateMatrixWorld exists on a model only                 *)
show(st, target) ==
    IF target \in LoadKeys
    THEN [st EXCEPT !.currentModel = target,
                    !.visible[target] = TRUE,
                    !.lightTarget = target]
    ELSE IF Primitive(target)
    THEN [st EXCEPT !.currentModel = target,
                    !.threw = TRUE]
    ELSE [st EXCEPT !.currentModel = target,
                    !.prototypeVisible = (target = ObjectPrototype) \/ @,
                    !.lightTarget = target,
                    !.threw = TRUE]

(* switchModel that shows the target but leaves currentModel as it was *)
switchModel_KeepCurrent(st, ms, modelKey) ==
    LET called == [st EXCEPT !.switchCalls = Append(@, modelKey)]
        hidden == hide(called)
    IN  IF ~Primitive(called.currentModel)
           /\ Registered(modelKey, ms, hidden.prototypeVisible)
           /\ hidden.currentModel = NULL
        THEN show(hidden, lookup(ms, modelKey, hidden.prototypeVisible))
        ELSE hidden

(* switchModel that leaves the directional light where it was *)
switchModel_NoRetarget(st, ms, modelKey) ==
    LET called == [st EXCEPT !.switchCalls = Append(@, modelKey)]
        hidden == hide(called)
    IN  IF ~Primitive(called.currentModel)
           /\ Registered(modelKey, ms, hidden.prototypeVisible)
        THEN [show(hidden, lookup(ms, modelKey, hidden.prototypeVisible))
                EXCEPT !.lightTarget = st.lightTarget]
        ELSE hidden

(* switchModel that shows the target without hiding the current model *)
switchModel_NoHide(st, ms, modelKey) ==
    LET called == [st EXCEPT !.switchCalls = Append(@, modelKey)]
    IN  IF Registered(modelKey, ms, called.prototypeVisible)
        THEN show(called, lookup(ms, modelKey, called.prototypeVisible))
        ELSE called

(* switchModel(modelKey) *)
switchModel(st, ms, modelKey) ==
    LET called == [st EXCEPT !.switchCalls = Append(@, modelKey)]
        hidden == hide(called)
    IN  IF ~Primitive(called.currentModel)
           /\ Registered(modelKey, ms, hidden.prototypeVisible)
        THEN show(hidden, lookup(ms, modelKey, hidden.prototypeVisible))
        ELSE hidden

(* scrollPosition < sections[1].offsetTop - window.innerHeight / 2 *)
BelowSecondSection(secs, vh, y) == 2 * y < 2 * secs[2].offsetTop - vh

(* Range test that excludes the lower bound *)
InSectionRange_OpenLower(sec, vh, y) ==
    /\ 2 * y > 2 * sec.offsetTop - vh
    /\ 2 * y < 2 * sec.offsetTop + 2 * sec.offsetHeight - vh

(* scrollPosition >= sectionTop - innerHeight/2 &&
   scrollPosition <  sectionTop + sectionHeight - innerHeight/2 *)
InSectionRange(sec, vh, y) ==
    /\ 2 * y >= 2 * sec.offsetTop - vh
    /\ 2 * y < 2 * sec.offsetTop + 2 * sec.offsetHeight - vh

(* main.js: `if (index === 0) return;` -- part_000 has no such line *)
SkipsFirstSection(sc) == sc = "main.js"

(* part_000 tests the top of the page only on the main page *)
HasHomeZone(sc, sol) == sc = "main.js" \/ ~sol

(* Body of the first `if` of handleScroll *)
showCar(st, ms) ==
    IF st.currentModel # NULL /\ (PrimaryKey \notin ms \/ st.currentModel # PrimaryKey)
    THEN LET hidden == hide(st)
         IN  IF Primitive(st.currentModel) THEN hidden
             ELSE IF PrimaryKey \notin ms
             THEN [hidden EXCEPT !.threw = TRUE]
             ELSE [hidden EXCEPT !.visible[PrimaryKey] = TRUE,
                                 !.currentModel = PrimaryKey,
                                 !.lightTarget = PrimaryKey]
    ELSE st

(* sections.forEach(...): an error thrown by the callback ends the loop *)
RECURSIVE forEachSection(_, _, _, _, _, _, _)
forEachSection(st, ms, sc, secs, vh, y, i) ==
    IF i > Len(secs) \/ st.threw THEN st
    ELSE IF (i = 1 /\ SkipsFirstSection(sc)) \/ ~InSectionRange(secs[i], vh, y)
         THEN forEachSection(st, ms, sc, secs, vh, y, i + 1)
         ELSE forEachSection(
                 switchModel([st EXCEPT !.activeSections = @ \cup {i}], ms,
                             secs[i].dataModel),
                 ms, sc, secs, vh, y, i + 1)

(* handleScroll() *)
handleScroll(st, ms, sc, sol, secs, vh, y) ==
    IF HasHomeZone(sc, sol) /\ BelowSecondSection(secs, vh, y)
    THEN showCar(st, ms)
    ELSE forEachSection(st, ms, sc, secs, vh, y, 1)

----------------------------------------------------------------------------
(* prepareModel.  One coordinate axis is modelled: Box3 and Vector3 treat  *)
(* the three axes alike.  Lengths are kept exact as integers: positions    *)
(* and box centres in twentieths, scales in tenths.  A scene has a         *)
(* position and a uniform scale, and its content spans [boxMin, boxMax] in *)
(* the scene's own coordinates; its child is a mesh or not, with a         *)
(* material or none, whose roughness and metalness may be undefined.       *)

NoCall == <<>>
NoScene == <<>>

CarScale10 == 12
OtherScale10 == 8
Roughness10 == 6
Metalness10 == 1

InputScales10 == {8, 10, 12}

(* child.material, if any, with the roughness and metalness it defines *)
Materials ==
    { m \in [present : BOOLEAN, hasRoughness : BOOLEAN, roughness10 : {0, 10},
             hasMetalness : BOOLEAN, metalness10 : {0, 5}, needsUpdate : {FALSE}] :
        /\ (m.hasRoughness => m.present) /\ (m.hasRoughness <=> m.roughness10 = 10)
        /\ (m.hasMetalness => m.present) /\ (m.hasMetalness <=> m.metalness10 = 5) }

GltfScenes ==
    { [position20 |-> 20 * q[1], scale10 |-> q[2], boxMin |-> q[3], boxMax |-> q[4],
       isMesh |-> q[5], castShadow |-> FALSE, receiveShadow |-> FALSE,
       material |-> q[6]] :
        q \in { r \in (-MaxPosition..MaxPosition) \X InputScales10
                      \X (-MaxExtent..MaxExtent) \X (-MaxExtent..MaxExtent)
                      \X BOOLEAN \X Materials : r[3] <= r[4] } }

(* new THREE.Box3().setFromObject(model).getCenter(...): the centre of the
   world-space box of the scene under its current position and scale *)
boxCenter20(model) == model.position20 + model.scale10 * (model.boxMin + model.boxMax)

(* The traverse callback's material part *)
setUpMaterial(material) ==
    IF ~material.present THEN material
    ELSE [material EXCEPT
            !.needsUpdate = TRUE,
            !.roughness10 = IF material.hasRoughness THEN Roughness10 ELSE @,
            !.metalness10 = IF material.hasMetalness THEN Metalness10 ELSE @]

(* prepareModel(model, isCar) *)
prepareModel(model, isCar) ==
    LET centered == [model EXCEPT !.position20 = @ - boxCenter20(model)]
        scaled == [centered EXCEPT !.scale10 = IF isCar THEN CarScale10 ELSE OtherScale10]
    IN  IF scaled.isMesh
        THEN [scaled EXCEPT !.castShadow = TRUE, !.receiveShadow = TRUE,
                            !.material = setUpMaterial(@)]
        ELSE scaled

----------------------------------------------------------------------------
(* Initial state: the script has been evaluated *)

Loaded(secs, vh) ==
    /\ script \in {"main.js", "part_000"}
    /\ isSolutionsPage \in (IF script = "main.js" THEN {FALSE} ELSE BOOLEAN)
    /\ sections \in secs
    /\ innerHeight \in vh
    /\ scrollY = 0
    /\ loadsStarted = StartLoading(script, isSolutionsPage).loadsStarted
    /\ inFlight = StartLoading(script, isSolutionsPage).inFlight
    /\ loadResult = [k \in LoadKeys |-> "none"]
    /\ models = {}
    /\ visible = [k \in LoadKeys |-> FALSE]
    /\ currentModel = NULL
    /\ lightTarget = DefaultTarget
    /\ prototypeVisible = FALSE
    /\ progressDisplay = (IF script = "part_000" /\ isSolutionsPage THEN "none" ELSE "block")
    /\ progressText = "initial"
    /\ consoleErrors = {}
    /\ threw = FALSE
    /\ switchCalls = <<>>
    /\ activeSections = {}
    /\ lastOp = "init"

NothingPrepared == prepareCall = NoCall /\ prepared = NoScene

(* The files the page is served with: the scene of the car's file and the  *)
(* scene of the other files                                                *)
CarScene ==
    [position20 |-> 0, scale10 |-> 10, boxMin |-> 0, boxMax |-> 2,
     isMesh |-> TRUE, castShadow |-> FALSE, receiveShadow |-> FALSE,
     material |-> [present |-> TRUE, hasRoughness |-> TRUE, roughness10 |-> 10,
                   hasMetalness |-> TRUE, metalness10 |-> 5, needsUpdate |-> FALSE]]

RoomScene == [CarScene EXCEPT !.boxMin = -1]

(* The paths the two scripts pass to loader.load *)
Paths == {"vehicle_-_subaru_brz_rocket_bunny", "city_gltf",
          "cozy_living_room_baked_gltf", "millennium_falcon"}

(* carPath: main.js 88, part_000 98 *)
carPath(sc) == IF sc = "main.js" THEN "vehicle_-_subaru_brz_rocket_bunny" ELSE "city_gltf"

(* modelPaths: main.js 120-124, part_000 127-131 *)
modelPath(key) ==
    CASE key = "livingroom" -> "cozy_living_room_baked_gltf"
      [] key = "bedroom" -> "millennium_falcon"
      [] key = "kitchen" -> "city_gltf"

pathOf(sc, key) == IF key = PrimaryKey THEN carPath(sc) ELSE modelPath(key)

PageFiles ==
    {[p \in Paths |-> IF p = "vehicle_-_subaru_brz_rocket_bunny" THEN CarScene ELSE RoomScene]}

Init == Loaded(Pages, InnerHeights) /\ files \in PageFiles /\ NothingPrepared

(* One page of touching sections, for the properties about loading *)
StackedPage ==
    <<Section(1, 1, "car"), Section(2, 1, "livingroom"), Section(3, 1, "bedroom")>>

InitStacked == Loaded({StackedPage}, {2}) /\ files \in PageFiles /\ NothingPrepared

Env == <<script, isSolutionsPage, sections, innerHeight, files>>

(* const model = prepareModel(gltf.scene, isCar) *)
Prepares(key, isCar) ==
    /\ prepareCall' = <<[model |-> files[pathOf(script, key)], isCar |-> isCar]>>
    /\ prepared' = <<prepareModel(files[pathOf(script, key)], isCar)>>

(* onLoad of the car: main.js 92-102 *)
CarOnLoad ==
    /\ inFlight[PrimaryKey] > 0
    /\ Prepares(PrimaryKey, TRUE)
    /\ LET ld == loadOtherModels([Loader EXCEPT !.inFlight[PrimaryKey] = @ - 1])
       IN  /\ loadsStarted' = ld.loadsStarted
           /\ inFlight' = ld.inFlight
    /\ loadResult' = [loadResult EXCEPT ![PrimaryKey] = "success"]
    /\ visible' = [visible EXCEPT ![PrimaryKey] = TRUE]
    /\ currentModel' = PrimaryKey
    /\ models' = register(models, PrimaryKey)
    /\ progressDisplay' = "none"
    /\ threw' = FALSE
    /\ switchCalls' = <<>>
    /\ activeSections' = {}
    /\ lastOp' = "carOnLoad"
    /\ UNCHANGED <<Env, prototypeVisible, scrollY, lightTarget, progressText, consoleErrors>>

(* onProgress of the car: main.js 103-108 *)
CarOnProgress ==
    /\ inFlight[PrimaryKey] > 0
    /\ progressText' = "loading"
    /\ threw' = FALSE
    /\ switchCalls' = <<>>
    /\ activeSections' = {}
    /\ lastOp' = "carOnProgress"
    /\ UNCHANGED <<Env, prototypeVisible, prepareCall, prepared, scrollY, loadsStarted, inFlight, loadResult, models, visible,
                   currentModel, lightTarget, progressDisplay, consoleErrors>>

(* onError of the car that reports the error and stops there *)
CarOnError_NoBackground ==
    /\ inFlight[PrimaryKey] > 0
    /\ inFlight' = [inFlight EXCEPT ![PrimaryKey] = @ - 1]
    /\ loadResult' = [loadResult EXCEPT ![PrimaryKey] = "failure"]
    /\ consoleErrors' = consoleErrors \cup {PrimaryKey}
    /\ progressText' = "error"
    /\ threw' = FALSE
    /\ switchCalls' = <<>>
    /\ activeSections' = {}
    /\ lastOp' = "carOnError"
    /\ UNCHANGED <<Env, prototypeVisible, prepareCall, prepared, scrollY, loadsStarted, models, visible, currentModel,
                   lightTarget, progressDisplay>>

(* onError of the car: main.js 109-114 *)
CarOnError ==
    /\ inFlight[PrimaryKey] > 0
    /\ LET ld == loadOtherModels([Loader EXCEPT !.inFlight[PrimaryKey] = @ - 1])
       IN  /\ loadsStarted' = ld.loadsStarted
           /\ inFlight' = ld.inFlight
    /\ loadResult' = [loadResult EXCEPT ![PrimaryKey] = "failure"]
    /\ consoleErrors' = consoleErrors \cup {PrimaryKey}
    /\ progressText' = "error"
    /\ threw' = FALSE
    /\ switchCalls' = <<>>
    /\ activeSections' = {}
    /\ lastOp' = "carOnError"
    /\ UNCHANGED <<Env, prototypeVisible, prepareCall, prepared, scrollY, models, visible, currentModel, lightTarget,
                   progressDisplay>>

(* Default showing that forgets the page test *)
ShownByDefault_AnyPage(key, sc, sol, cur) ==
    key = "livingroom" /\ cur = NULL

(* Default showing that forgets the !currentModel test *)
ShownByDefault_NoCurrentTest(key, sc, sol, cur) ==
    sc = "part_000" /\ sol /\ key = "livingroom"

(* part_000 144: isSolutionsPage && key === 'livingroom' && !currentModel *)
ShownByDefault(key, sc, sol, cur) ==
    sc = "part_000" /\ sol /\ key = "livingroom" /\ cur = NULL

(* onLoad of a background model: main.js 129-135, part_000 136-148 *)
OtherOnLoad(key) ==
    /\ inFlight[key] > 0
    /\ Prepares(key, FALSE)
    /\ inFlight' = [inFlight EXCEPT ![key] = @ - 1]
    /\ loadResult' = [loadResult EXCEPT ![key] = "success"]
    /\ models' = register(models, key)
    /\ IF ShownByDefault(key, script, isSolutionsPage, currentModel)
       THEN /\ currentModel' = key
            /\ visible' = [visible EXCEPT ![key] = TRUE]
       ELSE /\ currentModel' = currentModel
            /\ visible' = [visible EXCEPT ![key] = FALSE]
    /\ threw' = FALSE
    /\ switchCalls' = <<>>
    /\ activeSections' = {}
    /\ lastOp' = "otherOnLoad"
    /\ UNCHANGED <<Env, prototypeVisible, scrollY, loadsStarted, lightTarget, progressDisplay,
                   progressText, consoleErrors>>

(* onError of a background model that keeps no trace of the failure *)
OtherOnError_Unrecorded(key) ==
    /\ inFlight[key] > 0
    /\ inFlight' = [inFlight EXCEPT ![key] = @ - 1]
    /\ loadResult' = [loadResult EXCEPT ![key] = "failure"]
    /\ consoleErrors' = consoleErrors
    /\ threw' = FALSE
    /\ switchCalls' = <<>>
    /\ activeSections' = {}
    /\ lastOp' = "otherOnError"
    /\ UNCHANGED <<Env, prototypeVisible, prepareCall, prepared, scrollY, loadsStarted, models, visible,
                   currentModel, lightTarget, progressDisplay, progressText>>

(* onError of a background model: main.js 137-139 *)
OtherOnError(key) ==
    /\ inFlight[key] > 0
    /\ inFlight' = [inFlight EXCEPT ![key] = @ - 1]
    /\ loadResult' = [loadResult EXCEPT ![key] = "failure"]
    /\ consoleErrors' = consoleErrors \cup {key}
    /\ threw' = FALSE
    /\ switchCalls' = <<>>
    /\ activeSections' = {}
    /\ lastOp' = "otherOnError"
    /\ UNCHANGED <<Env, prototypeVisible, prepareCall, prepared, scrollY, loadsStarted, models, visible, currentModel,
                   lightTarget, progressDisplay, progressText>>

(* A scroll event: the user scrolls to offset y and handleScroll runs *)
ScrollEvent(y) ==
    /\ scrollY' = y
    /\ LET st == handleScroll(Scene, models, script, isSolutionsPage,
                              sections, innerHeight, y)
       IN  /\ currentModel' = st.currentModel
           /\ visible' = st.visible
           /\ lightTarget' = st.lightTarget
           /\ prototypeVisible' = st.prototypeVisible
           /\ threw' = st.threw
           /\ switchCalls' = st.switchCalls
           /\ activeSections' = st.activeSections
    /\ lastOp' = "handleScroll"
    /\ UNCHANGED <<Env, prepareCall, prepared, loadsStarted, inFlight, loadResult, models,
                   progressDisplay, progressText, consoleErrors>>

Next ==
    \/ CarOnLoad
    \/ CarOnProgress
    \/ CarOnError
    \/ \E key \in SecondaryKeys : OtherOnLoad(key)
    \/ \E key \in SecondaryKeys : OtherOnError(key)
    \/ \E y \in 0..MaxScroll : ScrollEvent(y)

Spec == Init /\ [][Next]_vars

(* Every load the loader has started is eventually answered, by onLoad or  *)
(* by onError.                                                             *)
EveryLoadCompletes ==
    /\ WF_vars(CarOnLoad \/ CarOnError)
    /\ \A key \in SecondaryKeys : WF_vars(OtherOnLoad(key) \/ OtherOnError(key))

(* The loads on their own, for every scene the files may hold: each       *)
(* onLoad prepares the scene it was given                                  *)
InitPrepare ==
    /\ Loaded({StackedPage}, {2})
    /\ files \in {[p \in Paths |-> scene] : scene \in GltfScenes}
    /\ NothingPrepared

NextPrepare ==
    \/ CarOnLoad
    \/ \E key \in SecondaryKeys : OtherOnLoad(key)

SpecPrepare == InitPrepare /\ [][NextPrepare]_vars

FairSpec == InitStacked /\ [][Next]_vars /\ EveryLoadCompletes

----------------------------------------------------------------------------
(* Derived notions used by the properties *)

Status(key) ==
    IF inFlight[key] > 0 THEN "loading"
    ELSE IF key \in models THEN "loaded"
    ELSE IF key \in consoleErrors THEN "failed"
    ELSE "pending"

VisibleModels == {k \in LoadKeys : visible[k]}

(* Doubled bounds of a section's active range
   [offsetTop - innerHeight/2, offsetTop + offsetHeight - innerHeight/2) *)
Lower2(sec) == 2 * sec.offsetTop - innerHeight
Upper2(sec) == 2 * sec.offsetTop + 2 * sec.offsetHeight - innerHeight

InRange(sec) == Lower2(sec) <= 2 * scrollY /\ 2 * scrollY < Upper2(sec)

InHomeZone ==
    /\ ~(script = "part_000" /\ isSolutionsPage)
    /\ 2 * scrollY < Lower2(sections[2])

----------------------------------------------------------------------------
(* C1: in every reachable state at most one model is visible, for every    *)
(* interleaving of load completions and scroll events.                     *)
C1_AtMostOneVisible == Cardinality(VisibleModels) <= 1

(* C1 case: the primary model and a background model are both registered,  *)
(* a scroll event has switched to the background model, and it is the one  *)
(* visible model.                                                          *)
C1_Witness ==
    /\ lastOp = "handleScroll"
    /\ switchCalls # <<>>
    /\ PrimaryKey \in models
    /\ currentModel \in SecondaryKeys
    /\ VisibleModels = {currentModel}

(* C2: a scroll event whose switchModel calls all name keys that are not   *)
(* registered leaves currentModel, every visible flag and the light target *)
(* as they were.                                                           *)
C2_SwitchToUnregisteredIsNoOp ==
    [][ ( /\ lastOp' = "handleScroll"
          /\ switchCalls' # <<>>
          /\ \A i \in 1..Len(switchCalls') : switchCalls'[i] \notin models )
        => UNCHANGED <<currentModel, visible, lightTarget>> ]_vars

(* C3: no scroll event ends in an error. *)
C3_ScrollNeverThrows == ~threw

(* C4: after a scroll event below the second section's lower bound, with   *)
(* the primary model loaded, the primary model is current and visible.     *)
C4_HomeZoneShowsPrimary ==
    ( /\ lastOp = "handleScroll"
      /\ InHomeZone
      /\ PrimaryKey \in models )
    => (currentModel = PrimaryKey /\ visible[PrimaryKey])

SectionIndices == 1..Len(sections)

(* No two sections' active ranges share a scroll offset *)
NonOverlapping ==
    \A i, j \in SectionIndices :
        i < j => (Upper2(sections[i]) <= Lower2(sections[j])
                  \/ Upper2(sections[j]) <= Lower2(sections[i]))

(* C5: with non-overlapping ranges, after a scroll event at or above the   *)
(* second section's lower bound and inside section i's range, where        *)
(* section i's data-model names a loaded model, that model is current and  *)
(* visible.                                                                *)
C5_ScrollInsideSectionSelectsItsModel ==
    ( /\ lastOp = "handleScroll"
      /\ NonOverlapping
      /\ 2 * scrollY >= Lower2(sections[2]) )
    => \A i \in SectionIndices :
          (InRange(sections[i]) /\ sections[i].dataModel \in models)
          => ( /\ currentModel = sections[i].dataModel
               /\ visible[sections[i].dataModel] )

(* C5 case: a scroll event inside a section's range has replaced another   *)
(* loaded model by the section's model.                                    *)
C5_Witness ==
    /\ lastOp = "handleScroll"
    /\ NonOverlapping
    /\ 2 * scrollY >= Lower2(sections[2])
    /\ \E i \in SectionIndices :
          /\ InRange(sections[i])
          /\ sections[i].dataModel \in SecondaryKeys \cap models
          /\ currentModel = sections[i].dataModel
          /\ visible[currentModel]
    /\ PrimaryKey \in models
    /\ Cardinality(models) >= 3

Visited(i) ==
    /\ ~InHomeZone
    /\ ~(SkipsFirstSection(script) /\ i = 1)
    /\ threw => \E j \in activeSections : j >= i

C7_AfterPrimaryLoad ==
    lastOp = "carOnLoad"
    => /\ PrimaryKey \in models
       /\ currentModel = PrimaryKey
       /\ visible[PrimaryKey]
       /\ progressDisplay = "none"
       /\ \A k \in SecondaryKeys :
             /\ loadsStarted[k] = 1
             /\ Status(k) = "loading"
             /\ k \notin models

(* C7 case: the car's onLoad has just run. *)
C7_Witness ==
    /\ lastOp = "carOnLoad"
    /\ loadResult[PrimaryKey] = "success"
    /\ inFlight[PrimaryKey] = 0

AllSecondaryResolved ==
    \A k \in SecondaryKeys : loadsStarted[k] > 0 /\ inFlight[k] = 0

Succeeded == {k \in SecondaryKeys : loadResult[k] = "success"}
Failed == {k \in SecondaryKeys : loadResult[k] = "failure"}

(* C8: a background key whose load failed is never registered, a key whose *)
(* load succeeded is registered whatever happened to the others, so once   *)
(* all loads have resolved the registered background keys are exactly the  *)
(* succeeded ones; a failed load raises no error.                          *)
C8_PartialFailure ==
    /\ \A k \in Failed : k \notin models /\ k \in consoleErrors
    /\ \A k \in Succeeded : k \in models
    /\ AllSecondaryResolved => models \cap SecondaryKeys = Succeeded
    /\ lastOp = "otherOnError" => ~threw

(* C8 case: every background load has resolved, bedroom failed first,      *)
(* and the car and livingroom are registered.                              *)
C8_Witness ==
    /\ AllSecondaryResolved
    /\ loadResult["bedroom"] = "failure"
    /\ loadResult["livingroom"] = "success"
    /\ lastOp = "otherOnLoad"
    /\ {PrimaryKey, "livingroom"} \subseteq models
    /\ "bedroom" \notin models

(* C9: calling loadCarModel or loadOtherModels when a key is already       *)
(* loading or loaded starts no new load for that key.                      *)
C9_LoadIsIdempotent ==
    \A k \in LoadKeys :
        Status(k) \in {"loading", "loaded"}
        => /\ loadCarModel(Loader).loadsStarted[k] = loadsStarted[k]
           /\ loadOtherModels(Loader).loadsStarted[k] = loadsStarted[k]

(* C10: once the car's load has been started, a load is eventually started *)
(* for every key of modelPaths and every one of them ends loaded or        *)
(* failed, whether the car loaded or failed; when the car failed, the      *)
(* error text is in the progress container by the time the background      *)
(* loads exist.                                                            *)
C10_BackgroundAlwaysTriggered ==
    /\ (loadsStarted[PrimaryKey] > 0)
         ~> (\A k \in SecondaryKeys :
                loadsStarted[k] > 0 /\ Status(k) \in {"loaded", "failed"})
    /\ []( (loadResult[PrimaryKey] = "failure"
              /\ \E k \in SecondaryKeys : loadsStarted[k] > 0)
           => progressText = "error" )
    /\ []( loadResult[PrimaryKey] # "none"
           => \A k \in SecondaryKeys : loadsStarted[k] > 0 )

(* C10 case: the car's load failed and every background load has since     *)
(* resolved.                                                               *)
C10_Witness ==
    /\ loadResult[PrimaryKey] = "failure"
    /\ progressText = "error"
    /\ \A k \in SecondaryKeys :
          loadsStarted[k] = 1 /\ Status(k) \in {"loaded", "failed"}
    /\ Succeeded # {}
    /\ Failed # {}

(* C11: currentModel, when set, is a registered model whose load has       *)
(* completed successfully; never a pending, loading or failed key.         *)
C11_CurrentIsLoaded ==
    currentModel # NULL
    => /\ currentModel \in models
       /\ currentModel \in LoadKeys
       /\ Status(currentModel) = "loaded"
       /\ loadResult[currentModel] = "success"

(* C11 case: a scroll event asked for keys that are not loaded and one     *)
(* that is; the loaded one is current while another key is still loading   *)
(* and another has failed.                                                 *)
C11_Witness ==
    /\ lastOp = "handleScroll"
    /\ currentModel \in SecondaryKeys
    /\ switchCalls # <<>>
    /\ \E k \in SecondaryKeys : Status(k) = "loading"
    /\ \E k \in SecondaryKeys : Status(k) = "failed"

PrimaryLoadPending ==
    loadsStarted[PrimaryKey] > 0 /\ loadResult[PrimaryKey] = "none"

(* C12: while the car's load has not resolved, whatever scroll events were *)
(* handled, currentModel is unset, nothing is registered and nothing is    *)
(* visible; right after the car's onLoad currentModel is the car.          *)
C12_NoneUntilPrimaryResolves ==
    /\ PrimaryLoadPending
       => (currentModel = NULL /\ models = {} /\ VisibleModels = {}
           /\ lightTarget = DefaultTarget)
    /\ (lastOp = "carOnLoad" /\ loadResult[PrimaryKey] = "success")
       => currentModel = PrimaryKey

(* C12 case: a scroll event inside a section's range called switchModel    *)
(* while the car was still loading.                                        *)
C12_Witness ==
    /\ PrimaryLoadPending
    /\ lastOp = "handleScroll"
    /\ switchCalls # <<>>
    /\ scrollY > 0
    /\ currentModel = NULL

(* C13: the scene prepareModel returns has scale 1.2 when isCar and 0.8    *)
(* otherwise, and the centre of its bounding box is at the origin.         *)
C13_PreparedIsScaledAndCentred ==
    prepared # NoScene
    => /\ prepared[1].scale10 =
             (IF prepareCall[1].isCar THEN CarScale10 ELSE OtherScale10)
       /\ boxCenter20(prepared[1]) = 0

(* The first section a scroll event found in range *)
FirstOf(S) == CHOOSE i \in S : \A j \in S : i <= j

(* C14: when a scroll event finds more than one section in range, the      *)
(* state after it is the one switchModel produces for the data-model of    *)
(* the first of them alone.                                                *)
C14_FirstMatchingSectionWins ==
    [][ (lastOp' = "handleScroll" /\ Cardinality(activeSections') >= 2)
        => LET st == switchModel(Scene, models,
                                 sections[FirstOf(activeSections')].dataModel)
           IN  /\ currentModel' = st.currentModel
               /\ visible' = st.visible
               /\ lightTarget' = st.lightTarget ]_vars

(* C15: a scroll event whose single switchModel call names a registered    *)
(* key other than the current one hides the previous current model, shows  *)
(* the target, makes it current and aims the light at it; other models'    *)
(* flags and the registry stay as they were.                               *)
C15_SwitchEffect ==
    [][ ( /\ lastOp' = "handleScroll"
          /\ Len(switchCalls') = 1
          /\ switchCalls'[1] \in models
          /\ switchCalls'[1] # currentModel )
        => LET key == switchCalls'[1]
           IN  /\ currentModel' = key
               /\ visible'[key]
               /\ lightTarget' = key
               /\ currentModel # NULL => ~visible'[currentModel]
               /\ \A other \in LoadKeys \ {key, currentModel} :
                     visible'[other] = visible[other]
               /\ models' = models ]_vars

(* C15 case: a single switchModel call has replaced the car by a           *)
(* background model while a third model is registered.                     *)
C15_Witness ==
    /\ lastOp = "handleScroll"
    /\ Len(switchCalls) = 1
    /\ currentModel = switchCalls[1]
    /\ currentModel \in SecondaryKeys
    /\ VisibleModels = {currentModel}
    /\ lightTarget = currentModel
    /\ PrimaryKey \in models
    /\ Cardinality(models) >= 3

(* C16: a scroll event whose single switchModel call names the current     *)
(* model leaves currentModel, every visible flag and the light target as   *)
(* they were.                                                              *)
C16_SwitchToCurrentIsNoOp ==
    [][ (lastOp' = "handleScroll" /\ switchCalls' = <<currentModel>>)
        => UNCHANGED <<currentModel, visible, lightTarget>> ]_vars

OnMainPage == ~(script = "part_000" /\ isSolutionsPage)

(* C17: on the main page a background onLoad registers its model hidden    *)
(* and leaves currentModel, the other models' flags and the light target   *)
(* as they were, wherever the page is scrolled to.                         *)
C17_BackgroundLoadDoesNotSwitch ==
    [][ (lastOp' = "otherOnLoad" /\ OnMainPage)
        => /\ currentModel' = currentModel
           /\ lightTarget' = lightTarget
           /\ \A k \in models' \ models : ~visible'[k]
           /\ \A k \in LoadKeys \ (models' \ models) : visible'[k] = visible[k]
           /\ Cardinality(models' \ models) = 1 ]_vars

(* C17 case: on the main page the scroll offset is inside the range of a   *)
(* section whose model was asked for before it was loaded; its load has    *)
(* just completed and it is registered, hidden and not current.            *)
C17_Witness ==
    /\ OnMainPage
    /\ lastOp = "otherOnLoad"
    /\ scrollY > 0
    /\ ~InHomeZone
    /\ \E i \in SectionIndices \ {1} :
          /\ InRange(sections[i])
          /\ sections[i].dataModel \in SecondaryKeys \cap models
          /\ sections[i].dataModel # currentModel
          /\ ~visible[sections[i].dataModel]
          /\ \A k \in SecondaryKeys \ {sections[i].dataModel} : k \notin models

(* C18: whenever currentModel is set, the directional light's target is    *)
(* the current model.                                                      *)
C18_LightTracksCurrent ==
    currentModel # NULL => lightTarget = currentModel

StatusStep(before, after) ==
    \/ before = after
    \/ before = "pending" /\ after = "loading"
    \/ before = "loading" /\ after \in {"loaded", "failed"}

(* C19: every step moves each key's status along pending -> loading ->     *)
(* loaded or failed and never back; a registered key stays registered, a   *)
(* failed key stays failed, and no key's load is started twice.            *)
C19_LifecycleIsMonotonic ==
    [][ /\ \A k \in LoadKeys : StatusStep(Status(k), Status(k)')
        /\ models \subseteq models'
        /\ consoleErrors \subseteq consoleErrors'
        /\ \A k \in LoadKeys :
              Status(k) \in {"loaded", "failed"}
              => (loadsStarted'[k] = loadsStarted[k] /\ loadResult'[k] = loadResult[k])
      ]_vars

(* C19 case: every load has resolved, one model loaded and another failed, *)
(* and a scroll event has hidden or switched models since.                 *)
C19_Witness ==
    /\ AllSecondaryResolved
    /\ Succeeded # {}
    /\ Failed # {}
    /\ lastOp = "handleScroll"
    /\ switchCalls # <<>>
    /\ \E k \in models : ~visible[k]

(* C20: every visible model is the current model, in both entry points.    *)
C20_VisibleImpliesCurrent ==
    \A k \in LoadKeys : visible[k] => currentModel = k

(* C20 case: on the solutions page livingroom was shown by default when    *)
(* its load completed after another model's, and is the current model.     *)
C20_Witness ==
    /\ script = "part_000" /\ isSolutionsPage
    /\ lastOp = "otherOnLoad"
    /\ currentModel = "livingroom"
    /\ visible["livingroom"]
    /\ lightTarget = DefaultTarget
    /\ Cardinality(models) >= 2

====
